---- MODULE Spec2Model ----
(***************************************************************************)
(* Source integrations of the papers-feed extension: URL patterns and      *)
(* extractPaperId of each publisher integration, the specialised metadata  *)
(* extractors, and the integration registry.                               *)
(*                                                                         *)
(* A JavaScript string is modelled as the sequence of its characters, each *)
(* a one-character string, so that regular-expression matching, split,     *)
(* trim and join are computed character by character.                      *)
(***************************************************************************)
EXTENDS Integers, Sequences, FiniteSets, TLC

VARIABLES
  href,                 \* the URL of the current page, as the host supplies it
  contentScriptMatches, \* per integration object: its contentScriptMatches list
  document,             \* the page bound to the current metadata extractor
  created,              \* the page as it was when the extractor was created
  extractor,            \* publisher of the bound extractor, "none" before one is created
  registry,             \* the sourceIntegrations array, as it is now
  call                  \* the last call made: [op, self, arg, ret]

vars == <<href, contentScriptMatches, document, created, extractor, registry, call>>

(***************************************************************************)
(* JavaScript values                                                       *)
(***************************************************************************)
\* null and undefined: no character sequence equals either.
Null == <<"null">>

Digit == {"0","1","2","3","4","5","6","7","8","9"}
UpperAZ == {"A","B","C","D","E","F","G","H","I","J","K","L","M",
            "N","O","P","Q","R","S","T","U","V","W","X","Y","Z"}
HexLower == {"a","b","c","d","e","f"} \cup Digit
\* \s of a JavaScript regular expression (the members a URL can carry here)
Whitespace == {" ", "\t", "\n", "\r"}


(***************************************************************************)
(* Regular expressions.  A pattern is a sequence of nodes: an atom (one    *)
(* character class with a quantifier), or the opening or closing of a      *)
(* capture group.  None of the patterns of the integrations nests groups,  *)
(* alternates or anchors.                                                  *)
(***************************************************************************)
Atom(cls, q) == [k |-> "atom", cls |-> cls, s |-> <<>>, q |-> q]
Open == [k |-> "open", cls |-> "", s |-> <<>>, q |-> ""]
Close == [k |-> "close", cls |-> "", s |-> <<>>, q |-> ""]
\* one literal character with a quantifier
LitQ(ch, q) == [k |-> "atom", cls |-> "lit", s |-> <<ch>>, q |-> q]
\* a literal run of characters, each matched exactly once
Lit(s) == << [k |-> "lit", cls |-> "", s |-> s, q |-> "1"] >>

\* whether character ch belongs to the class of atom n
InClass(n, ch) ==
  CASE n.cls = "lit" -> ch = n.s[1]
    [] n.cls = "\\d" -> ch \in Digit
    [] n.cls = "[A-Z]" -> ch \in UpperAZ
    [] n.cls = "[A-Z0-9]" -> ch \in UpperAZ \cup Digit
    [] n.cls = "[a-f0-9]" -> ch \in HexLower
    [] n.cls = "[_\\/]" -> ch \in {"_", "/"}
    [] n.cls = "[^.]" -> ch # "."
    [] n.cls = "[^v\\s?]" -> ch \notin ({"v", "?"} \cup Whitespace)
    [] n.cls = "[^\\s?]" -> ch \notin ({"?"} \cup Whitespace)
    [] n.cls = "[^\\s]" -> ch \notin Whitespace
    [] OTHER -> FALSE

\* the least member of a non-empty set of positions
Least(S) == CHOOSE x \in S : \A y \in S : x <= y

\* number of consecutive characters of w from position p that atom n accepts
RunLen(n, w, p) ==
  LET stops == {j \in p..Len(w) : ~InClass(n, w[j])} IN
  IF stops = {} THEN Len(w) + 1 - p ELSE Least(stops) - p

\* whether the literal run s stands in w at position p
LitAt(s, w, p) ==
  /\ p + Len(s) - 1 <= Len(w)
  /\ \A i \in 1..Len(s) : w[p + i - 1] = s[i]

(* Paths(re, i, w, p, gs, caps): every way the nodes i.. of re match w from    *)
(* position p, in the order a backtracking matcher tries them (a greedy      *)
(* quantifier takes the longest run first).  Each is [e, caps]: the position *)
(* after the match and the captured groups.  gs is the start of the open     *)
(* group.                                                                    *)
RECURSIVE Paths(_, _, _, _, _, _)
RECURSIVE Try(_, _, _, _, _, _, _, _)
Paths(re, i, w, p, gs, caps) ==
  IF i > Len(re) THEN << [e |-> p, caps |-> caps] >>
  ELSE LET n == re[i] IN
    CASE n.k = "open" -> Paths(re, i + 1, w, p, p, caps)
      [] n.k = "close" -> Paths(re, i + 1, w, p, 0, Append(caps, SubSeq(w, gs, p - 1)))
      [] n.k = "lit" -> IF LitAt(n.s, w, p) THEN Paths(re, i + 1, w, p + Len(n.s), gs, caps)
                        ELSE <<>>
      [] OTHER ->
          LET run == IF n.q \in {"1", "?"}
                     THEN (IF p <= Len(w) /\ InClass(n, w[p]) THEN 1 ELSE 0)
                     ELSE RunLen(n, w, p)
              lo == IF n.q \in {"1", "+"} THEN 1 ELSE 0
          IN Try(re, i, w, p, gs, caps, run, lo)

Try(re, i, w, p, gs, caps, len, lo) ==
  IF len < lo THEN <<>>
  ELSE Paths(re, i + 1, w, p + len, gs, caps) \o Try(re, i, w, p, gs, caps, len - 1, lo)

\* the null result of String.prototype.match (positions start at 1)
NoMatch == [index |-> 0, e |-> 0, caps |-> <<>>]

\* the positions of w where pattern re matches
MatchStarts(re, w) == {s \in 1..Len(w) + 1 : Paths(re, 1, w, s, 0, <<>>) # <<>>}

\* String.prototype.match with a non-global pattern: the first way of the
\* leftmost position where the pattern matches; NoMatch when there is none.
\* The result is [index, e, caps]; caps[k] is the k-th capture group.
Match(w, re) ==
  LET starts == MatchStarts(re, w) IN
  IF starts = {} THEN NoMatch
  ELSE LET s == Least(starts)
           first == Paths(re, 1, w, s, 0, <<>>)[1]
       IN [index |-> s, e |-> first.e, caps |-> first.caps]

(***************************************************************************)
(* urlPatterns of the integrations                                         *)
(***************************************************************************)
\* /ssrn\.com\/abstract=(\d+)/,
\* /papers\.ssrn\.com\/sol3\/papers\.cfm\?abstract_id=(\d+)/
SSRN_urlPatterns == <<
  Lit(<<"s","s","r","n",".","c","o","m","/","a","b","s","t","r","a","c","t","=">>) \o <<Open, Atom("\\d", "+"), Close>>,
  Lit(<<"p","a","p","e","r","s",".","s","s","r","n",".","c","o","m","/","s","o","l","3","/","p","a","p","e","r","s",".","c","f","m","?","a","b","s","t","r","a","c","t","_","i","d","=">>) \o <<Open, Atom("\\d", "+"), Close>> >>

\* a DOI group (10\.\d+\/<cls>+)
DoiGroup(cls) ==
  <<Open>> \o Lit(<<"1","0",".">>) \o <<Atom("\\d", "+")>> \o Lit(<<"/">>) \o <<Atom(cls, "+"), Close>>

\* /link\.springer\.com\/article\/(10\.\d+\/[^\s?]+)/,
\* /link\.springer\.com\/chapter\/(10\.\d+\/[^\s?]+)/
Springer_urlPatterns == <<
  Lit(<<"l","i","n","k",".","s","p","r","i","n","g","e","r",".","c","o","m","/","a","r","t","i","c","l","e","/">>) \o DoiGroup("[^\\s?]"),
  Lit(<<"l","i","n","k",".","s","p","r","i","n","g","e","r",".","c","o","m","/","c","h","a","p","t","e","r","/">>) \o DoiGroup("[^\\s?]") >>

\* /dl\.acm\.org\/doi\/(10\.\d+\/\d+)/, /dl\.acm\.org\/doi\/abs\/(10\.\d+\/\d+)/,
\* /dl\.acm\.org\/citation\.cfm\?id=(\d+)/
ACM_urlPatterns == <<
  Lit(<<"d","l",".","a","c","m",".","o","r","g","/","d","o","i","/">>) \o DoiGroup("\\d"),
  Lit(<<"d","l",".","a","c","m",".","o","r","g","/","d","o","i","/","a","b","s","/">>) \o DoiGroup("\\d"),
  Lit(<<"d","l",".","a","c","m",".","o","r","g","/","c","i","t","a","t","i","o","n",".","c","f","m","?","i","d","=">>) \o <<Open, Atom("\\d", "+"), Close>> >>

\* openaccess\.thecvf\.com\/content[_\/]([A-Z]+)[_\/](\d+)[_\/]<kind>[_\/]([^.]+)\.<ext>
CvfPattern(kind, ext) ==
  Lit(<<"o","p","e","n","a","c","c","e","s","s",".","t","h","e","c","v","f",".","c","o","m","/","c","o","n","t","e","n","t">>)
  \o <<Atom("[_\\/]", "1"), Open, Atom("[A-Z]", "+"), Close,
       Atom("[_\\/]", "1"), Open, Atom("\\d", "+"), Close, Atom("[_\\/]", "1")>>
  \o Lit(kind)
  \o <<Atom("[_\\/]", "1"), Open, Atom("[^.]", "+"), Close>>
  \o Lit(<<".">>) \o Lit(ext)

\* /...content[_\/]([A-Z]+)[_\/](\d+)[_\/]html[_\/]([^.]+)\.html/,
\* /...content[_\/]([A-Z]+)[_\/](\d+)[_\/]papers[_\/]([^.]+)\.pdf/
CVF_urlPatterns == << CvfPattern(<<"h","t","m","l">>, <<"h","t","m","l">>), CvfPattern(<<"p","a","p","e","r","s">>, <<"p","d","f">>) >>

\* /ieeexplore\.ieee\.org\/document\/(\d+)/, /ieeexplore\.ieee\.org\/abstract\/document\/(\d+)/
IEEE_urlPatterns == <<
  Lit(<<"i","e","e","e","x","p","l","o","r","e",".","i","e","e","e",".","o","r","g","/","d","o","c","u","m","e","n","t","/">>) \o <<Open, Atom("\\d", "+"), Close>>,
  Lit(<<"i","e","e","e","x","p","l","o","r","e",".","i","e","e","e",".","o","r","g","/","a","b","s","t","r","a","c","t","/","d","o","c","u","m","e","n","t","/">>) \o <<Open, Atom("\\d", "+"), Close>> >>

\* the group ([A-Z0-9]+\.\d+-\d+)
AclIdGroup ==
  <<Open, Atom("[A-Z0-9]", "+")>> \o Lit(<<".">>) \o <<Atom("\\d", "+")>> \o Lit(<<"-">>)
  \o <<Atom("\\d", "+"), Close>>

\* /aclanthology\.org\/([A-Z0-9]+\.\d+-\d+)/, /aclweb\.org\/anthology\/([A-Z0-9]+\.\d+-\d+)/
ACL_urlPatterns == <<
  Lit(<<"a","c","l","a","n","t","h","o","l","o","g","y",".","o","r","g","/">>) \o AclIdGroup,
  Lit(<<"a","c","l","w","e","b",".","o","r","g","/","a","n","t","h","o","l","o","g","y","/">>) \o AclIdGroup >>

\* the medRxiv patterns with a DOI class that does not stop at 'v'
MedRxiv_urlPatterns_greedyDoi == <<
  Lit(<<"m","e","d","r","x","i","v",".","o","r","g","/","c","o","n","t","e","n","t","/">>) \o DoiGroup("[^\\s?]")
    \o <<LitQ("v", "?"), Atom("\\d", "*")>>,
  Lit(<<"m","e","d","r","x","i","v",".","o","r","g","/","c","o","n","t","e","n","t","/","e","a","r","l","y","/">>)
    \o <<Atom("\\d", "+")>> \o Lit(<<"/">>) \o <<Atom("\\d", "+")>> \o Lit(<<"/">>)
    \o <<Atom("\\d", "+")>> \o Lit(<<"/">>) \o <<Open, Atom("\\d", "+"), Close>> >>

\* /medrxiv\.org\/content\/(10\.\d+\/[^v\s?]+)v?\d*/,
\* /medrxiv\.org\/content\/early\/\d+\/\d+\/\d+\/(\d+)/
MedRxiv_urlPatterns == <<
  Lit(<<"m","e","d","r","x","i","v",".","o","r","g","/","c","o","n","t","e","n","t","/">>) \o DoiGroup("[^v\\s?]")
    \o <<LitQ("v", "?"), Atom("\\d", "*")>>,
  Lit(<<"m","e","d","r","x","i","v",".","o","r","g","/","c","o","n","t","e","n","t","/","e","a","r","l","y","/">>)
    \o <<Atom("\\d", "+")>> \o Lit(<<"/">>) \o <<Atom("\\d", "+")>> \o Lit(<<"/">>)
    \o <<Atom("\\d", "+")>> \o Lit(<<"/">>) \o <<Open, Atom("\\d", "+"), Close>> >>

\* <host>\/<path>\/(\d+)\/<kind>\/([a-f0-9]+)
NeuripsPattern(prefix, kind) ==
  Lit(prefix) \o <<Open, Atom("\\d", "+"), Close>> \o Lit(<<"/">>) \o Lit(kind) \o Lit(<<"/">>)
  \o <<Open, Atom("[a-f0-9]", "+"), Close>>

\* the five patterns of NeurIPSIntegration, in declared order
NeurIPS_urlPatterns == <<
  NeuripsPattern(<<"p","a","p","e","r","s",".","n","i","p","s",".","c","c","/","p","a","p","e","r","/">>, <<"h","a","s","h">>),
  NeuripsPattern(<<"p","a","p","e","r","s",".","n","i","p","s",".","c","c","/","p","a","p","e","r","/">>, <<"f","i","l","e">>),
  NeuripsPattern(<<"p","r","o","c","e","e","d","i","n","g","s",".","n","e","u","r","i","p","s",".","c","c","/","p","a","p","e","r","/">>, <<"h","a","s","h">>),
  NeuripsPattern(<<"p","r","o","c","e","e","d","i","n","g","s",".","n","e","u","r","i","p","s",".","c","c","/","p","a","p","e","r","/">>, <<"f","i","l","e">>),
  NeuripsPattern(<<"p","r","o","c","e","e","d","i","n","g","s",".","n","e","u","r","i","p","s",".","c","c","/","p","a","p","e","r","_","f","i","l","e","s","/","p","a","p","e","r","/">>, <<"h","a","s","h">>) >>

\* the integrations whose classes are in the source, by their id
Publishers == {"ssrn", "springer", "acm", "cvf", "ieee", "acl", "medrxiv", "neurips"}

urlPatterns(self) ==
  CASE self = "ssrn" -> SSRN_urlPatterns
    [] self = "springer" -> Springer_urlPatterns
    [] self = "acm" -> ACM_urlPatterns
    [] self = "cvf" -> CVF_urlPatterns
    [] self = "ieee" -> IEEE_urlPatterns
    [] self = "acl" -> ACL_urlPatterns
    [] self = "medrxiv" -> MedRxiv_urlPatterns
    [] self = "neurips" -> NeurIPS_urlPatterns

(***************************************************************************)
(* extractPaperId                                                          *)
(***************************************************************************)
\* the template literal `${match[1]}-${match[2]}` and its three-group form
Dash == <<"-">>

\* the loop body returning match[1] in every integration
IdOfMatch_firstGroup(self, m) == m.caps[1]

\* what the loop body returns for a match m: match[1], or the groups joined by '-'
IdOfMatch(self, m) ==
  CASE self = "cvf" -> m.caps[1] \o Dash \o m.caps[2] \o Dash \o m.caps[3]
    [] self = "neurips" -> m.caps[1] \o Dash \o m.caps[2]
    [] OTHER -> m.caps[1]

\* for (const pattern of this.urlPatterns) { const match = url.match(pattern);
\*   if (match) return ...; }  return null;
RECURSIVE PaperIdFrom(_, _, _)
PaperIdFrom(self, url, i) ==
  IF i > Len(urlPatterns(self)) THEN Null
  ELSE LET match == Match(url, urlPatterns(self)[i]) IN
       IF match # NoMatch THEN IdOfMatch(self, match)
       ELSE PaperIdFrom(self, url, i + 1)

\* the loop run from the last pattern to the first
RECURSIVE PaperIdBack(_, _, _)
PaperIdBack(self, url, i) ==
  IF i < 1 THEN Null
  ELSE LET match == Match(url, urlPatterns(self)[i]) IN
       IF match # NoMatch THEN IdOfMatch(self, match)
       ELSE PaperIdBack(self, url, i - 1)

extractPaperId_lastWins(self, url) == PaperIdBack(self, url, Len(urlPatterns(self)))

\* the loop ending in `return ''` instead of `return null`
extractPaperId_emptyOnMiss(self, url) ==
  IF PaperIdFrom(self, url, 1) = Null THEN <<>> ELSE PaperIdFrom(self, url, 1)

extractPaperId(self, url) == PaperIdFrom(self, url, 1)

(***************************************************************************)
(* Page URLs handed to extractPaperId                                      *)
(***************************************************************************)
\* highest version number of a preprint URL
MaxVersion == 2

\* Number.prototype.toString of a natural number
RECURSIVE NumStr(_)
NumStr(n) ==
  LET d == <<"0","1","2","3","4","5","6","7","8","9">>[(n % 10) + 1] IN
  IF n < 10 THEN <<d>> ELSE NumStr(n \div 10) \o <<d>>

Protocols == { <<>>, <<"h","t","t","p",":","/","/">>, <<"h","t","t","p","s",":","/","/">> }

\* DOIs of the form 10.<digits>/<suffix>
Dois == { <<"1","0",".","1","1","0","1","/","2","0","2","1",".","0","1",".","0","1",".","0","0","0","0","0","1">>, <<"1","0",".","1","1","0","1","/","1","9",".","5">>, <<"1","0",".","1","1","0","1","/","c","o","v","i","d","1","9">> }
MedRxivContent == <<"w","w","w",".","m","e","d","r","x","i","v",".","o","r","g","/","c","o","n","t","e","n","t","/">>
\* a preprint URL: version 0 is the unversioned URL
PreprintUrl(d, n) == MedRxivContent \o d \o (IF n = 0 THEN <<>> ELSE <<"v">> \o NumStr(n))

\* page URLs without protocol: the forms of each publisher and some that
\* belong to none
PageUrls ==
  { <<"s","s","r","n",".","c","o","m","/","a","b","s","t","r","a","c","t","=","1","2","3">>,
    <<"p","a","p","e","r","s",".","s","s","r","n",".","c","o","m","/","s","o","l","3","/","p","a","p","e","r","s",".","c","f","m","?","a","b","s","t","r","a","c","t","_","i","d","=","1","2","3">>,
    <<"l","i","n","k",".","s","p","r","i","n","g","e","r",".","c","o","m","/","a","r","t","i","c","l","e","/","1","0",".","1","0","0","7","/","s","1","-","2">>,
    <<"l","i","n","k",".","s","p","r","i","n","g","e","r",".","c","o","m","/","c","h","a","p","t","e","r","/","1","0",".","1","0","0","7","/","9","7","8","_","3">>,
    <<"d","l",".","a","c","m",".","o","r","g","/","d","o","i","/","1","0",".","1","1","4","5","/","3","3">>,
    <<"d","l",".","a","c","m",".","o","r","g","/","d","o","i","/","a","b","s","/","1","0",".","1","1","4","5","/","3","3">>,
    <<"d","l",".","a","c","m",".","o","r","g","/","c","i","t","a","t","i","o","n",".","c","f","m","?","i","d","=","3","3">>,
    <<"d","l",".","a","c","m",".","o","r","g","/","d","o","i","/","p","d","f","/","1","0",".","1","1","4","5","/","3","3">>,
    <<"d","l",".","a","c","m",".","o","r","g","/","d","o","i","/","1","0",".","1","1","4","5","/","3","2","9","2","5","0","0",".","3","3","3","0","7","0","1">>,
    <<"d","l",".","a","c","m",".","o","r","g","/","d","o","i","/","a","b","s","/","1","0",".","1","1","4","5","/","3","2","9","2","5","0","0",".","3","3","3","0","7","0","1">>,
    <<"d","l",".","a","c","m",".","o","r","g","/","d","o","i","/","1","0",".","1","1","4","5","/","3","2","9","2","5","0","0",".","3","3","3","0","7","0","2">>,
    <<"o","p","e","n","a","c","c","e","s","s",".","t","h","e","c","v","f",".","c","o","m","/","c","o","n","t","e","n","t","_","C","V","P","R","_","2","0","2","0","/","h","t","m","l","/","F","o","o","_","p","a","p","e","r",".","h","t","m","l">>,
    <<"o","p","e","n","a","c","c","e","s","s",".","t","h","e","c","v","f",".","c","o","m","/","c","o","n","t","e","n","t","_","C","V","P","R","_","2","0","2","0","/","p","a","p","e","r","s","/","F","o","o","_","p","a","p","e","r",".","p","d","f">>,
    <<"o","p","e","n","a","c","c","e","s","s",".","t","h","e","c","v","f",".","c","o","m","/","c","o","n","t","e","n","t","/","C","V","P","R","2","0","2","3","/","h","t","m","l","/","F","o","o","_","p","a","p","e","r",".","h","t","m","l">>,
    <<"i","e","e","e","x","p","l","o","r","e",".","i","e","e","e",".","o","r","g","/","d","o","c","u","m","e","n","t","/","9","1">>,
    <<"i","e","e","e","x","p","l","o","r","e",".","i","e","e","e",".","o","r","g","/","a","b","s","t","r","a","c","t","/","d","o","c","u","m","e","n","t","/","9","1">>,
    <<"i","e","e","e","x","p","l","o","r","e",".","i","e","e","e",".","o","r","g","/","d","o","c","u","m","e","n","t","/">>,
    <<"a","c","l","a","n","t","h","o","l","o","g","y",".","o","r","g","/","P","1","9",".","1","-","2","2">>,
    <<"a","c","l","w","e","b",".","o","r","g","/","a","n","t","h","o","l","o","g","y","/","P","1","9",".","1","-","2","2">>,
    <<"a","c","l","a","n","t","h","o","l","o","g","y",".","o","r","g","/","P","1","9","-","1","0","0","1">>,
    <<"a","c","l","w","e","b",".","o","r","g","/","a","n","t","h","o","l","o","g","y","/","P","1","9","-","1","0","0","1">>,
    <<"a","c","l","a","n","t","h","o","l","o","g","y",".","o","r","g","/","2","0","2","0",".","a","c","l","-","m","a","i","n",".","1">>,
    <<"w","w","w",".","m","e","d","r","x","i","v",".","o","r","g","/","c","o","n","t","e","n","t","/","e","a","r","l","y","/","2","0","2","1","/","0","1","/","0","2","/","1","2","3">>,
    <<"p","a","p","e","r","s",".","n","i","p","s",".","c","c","/","p","a","p","e","r","/","2","0","2","0","/","h","a","s","h","/","a","b","1","2">>,
    <<"p","a","p","e","r","s",".","n","i","p","s",".","c","c","/","p","a","p","e","r","/","2","0","2","0","/","f","i","l","e","/","a","b","1","2">>,
    <<"p","r","o","c","e","e","d","i","n","g","s",".","n","e","u","r","i","p","s",".","c","c","/","p","a","p","e","r","/","2","0","2","0","/","h","a","s","h","/","a","b","1","2">>,
    <<"p","r","o","c","e","e","d","i","n","g","s",".","n","e","u","r","i","p","s",".","c","c","/","p","a","p","e","r","/","2","0","2","0","/","f","i","l","e","/","a","b","1","2">>,
    <<"p","r","o","c","e","e","d","i","n","g","s",".","n","e","u","r","i","p","s",".","c","c","/","p","a","p","e","r","_","f","i","l","e","s","/","p","a","p","e","r","/","2","0","2","0","/","h","a","s","h","/","a","b","1","2">>,
    <<"e","x","a","m","p","l","e",".","o","r","g","/","p","a","p","e","r","/","1"," ","2">>,
    <<>> }
  \cup { PreprintUrl(d, n) : d \in Dois, n \in 0..MaxVersion }

\* URLs of other papers, as a redirect or referrer parameter carries them
ReferredUrls ==
  { <<"s","s","r","n",".","c","o","m","/","a","b","s","t","r","a","c","t","=","9">>,
    <<"l","i","n","k",".","s","p","r","i","n","g","e","r",".","c","o","m","/","a","r","t","i","c","l","e","/","1","0",".","1","0","0","7","/","z">>,
    <<"d","l",".","a","c","m",".","o","r","g","/","d","o","i","/","1","0",".","1","1","4","5","/","9","9">>,
    <<"o","p","e","n","a","c","c","e","s","s",".","t","h","e","c","v","f",".","c","o","m","/","c","o","n","t","e","n","t","_","I","C","C","V","_","2","0","1","9","/","h","t","m","l","/","B","a","r",".","h","t","m","l">>,
    <<"i","e","e","e","x","p","l","o","r","e",".","i","e","e","e",".","o","r","g","/","d","o","c","u","m","e","n","t","/","7","7">>,
    <<"a","c","l","a","n","t","h","o","l","o","g","y",".","o","r","g","/","A","1",".","2","-","3">>,
    <<"m","e","d","r","x","i","v",".","o","r","g","/","c","o","n","t","e","n","t","/","1","0",".","1","1","0","1","/","5">>,
    <<"p","a","p","e","r","s",".","n","i","p","s",".","c","c","/","p","a","p","e","r","/","2","0","1","9","/","h","a","s","h","/","c","d">> }

\* what follows the path of a page URL
Tails ==
  { <<>>, <<"?","a","=","1">>, <<"&","a","=","1">>, <<"#","s">> } \cup { <<"?","r","=">> \o r : r \in ReferredUrls }

Urls == { p \o u \o t : p \in Protocols, u \in PageUrls, t \in Tails }

(***************************************************************************)
(* Calls                                                                   *)
(***************************************************************************)
NoCall == [op |-> "none", self |-> "none", arg |-> <<>>, ret |-> <<>>]

\* integration.extractPaperId(url), asked once for the page the host is on
ExtractPaperId(self) ==
  /\ call = NoCall
  /\ call' = [op |-> "extractPaperId", self |-> self, arg |-> href,
              ret |-> extractPaperId(self, href)]
  /\ UNCHANGED <<href, contentScriptMatches, document, created, extractor, registry>>

InitPaperId ==
  /\ href \in Urls
  /\ contentScriptMatches = <<>>
  /\ document = <<>>
  /\ created = <<>>
  /\ extractor = "none"
  /\ registry = <<>>
  /\ call = NoCall

NextPaperId == \E self \in Publishers : ExtractPaperId(self)

SpecPaperId == InitPaperId /\ [][NextPaperId]_vars

(***************************************************************************)
(* Strings of the metadata extractors                                      *)
(***************************************************************************)
\* String.prototype.trim
Trim(s) ==
  LET keep == {i \in 1..Len(s) : s[i] \notin Whitespace} IN
  IF keep = {} THEN <<>>
  ELSE SubSeq(s, Least(keep), CHOOSE x \in keep : \A y \in keep : y <= x)

\* Array.prototype.join(', ')
RECURSIVE JoinComma(_)
JoinComma(items) ==
  IF Len(items) = 0 THEN <<>>
  ELSE IF Len(items) = 1 THEN items[1]
  ELSE items[1] \o <<","," ">> \o JoinComma(Tail(items))

\* String.prototype.split(/[;,]/): the pieces between the separators
RECURSIVE SplitFrom(_, _, _)
SplitFrom(s, from, p) ==
  IF p > Len(s) THEN << SubSeq(s, from, Len(s)) >>
  ELSE IF s[p] \in {";", ","} THEN << SubSeq(s, from, p - 1) >> \o SplitFrom(s, p + 1, p + 1)
  ELSE SplitFrom(s, from, p + 1)

Split(s) == SplitFrom(s, 1, 1)

\* .map(f) with f = trim, and .filter(Boolean) on strings
TrimAll(items) == [i \in 1..Len(items) |-> Trim(items[i])]
FilterBoolean(items) == SelectSeq(items, LAMBDA x : x # <<>>)

\* a || b on strings: a when it is not empty, else b
OrElse(a, b) == IF a # <<>> THEN a ELSE b

\* the split and the trim without the filter
SplitKeywords_noFilter(keywords) == TrimAll(Split(keywords))

\* keywords.split(/[;,]/).map(tag => tag.trim()).filter(Boolean)
SplitKeywords(keywords) == FilterBoolean(TrimAll(Split(keywords)))

(***************************************************************************)
(* The page.  A document is the sequence, in document order, of the nodes  *)
(* the extractors look at: meta tags, keyed by their name or property      *)
(* attribute, with their content attribute; and elements, keyed by the     *)
(* simple selector they satisfy, with their text content.                  *)
(***************************************************************************)
\* the elements a selector list selects, by kind of element
CVF_AUTHORS == {".author a", "#authors b"}
IEEE_AUTHORS == {".authors-info .author span"}
NEURIPS_AUTHORS == {".author a", ".author span", ".authors-info .author span"}

\* document.querySelectorAll: the nodes of the kinds in keys, in document order
QuerySelectorAll(doc, keys) == SelectSeq(doc, LAMBDA n : n.key \in keys)

\* the content attributes (or text contents) of a node list
Contents(nodes) == [i \in 1..Len(nodes) |-> nodes[i].content]

\* MetadataExtractor.getMetaContent(selector): the content attribute of the
\* first meta tag the selector finds, '' when there is none
getMetaContent(doc, name) ==
  LET found == QuerySelectorAll(doc, {name}) IN
  IF Len(found) = 0 THEN <<>> ELSE found[1].content

(***************************************************************************)
(* MetadataExtractor, the base class                                       *)
(***************************************************************************)
\* title: first present of the og:title meta, else empty
Base_extractTitle(doc) == getMetaContent(doc, "og:title")

\* authors: comma-joined list from author meta tags if present, else empty
Base_extractAuthors(doc) ==
  JoinComma(FilterBoolean(Contents(QuerySelectorAll(doc, {"author"}))))

\* description: the description or og:description meta
Base_extractDescription(doc) ==
  OrElse(getMetaContent(doc, "description"), getMetaContent(doc, "og:description"))

\* publishedDate: a generic date meta tag if present
Base_extractPublishedDate(doc) == getMetaContent(doc, "date")

\* doi: a generic DOI meta tag if present
Base_extractDoi(doc) == getMetaContent(doc, "doi")

\* journalName: empty unless overridden
Base_extractJournalName(doc) == <<>>

\* tags: the keywords meta split on ',' and ';', trimmed, empty entries removed
Base_extractTags(doc) == SplitKeywords(getMetaContent(doc, "keywords"))

(***************************************************************************)
(* Parts the specialised extractors share, text for text                   *)
(***************************************************************************)
\* querySelectorAll('meta[name="<name>"]').forEach(el => { const content =
\*   el.getAttribute('content'); if (content) list.push(content); })
PushedContents(doc, name) == FilterBoolean(Contents(QuerySelectorAll(doc, {name})))

\* Array.from(elements).map(el => el.textContent?.trim()).filter(Boolean)
ElementTexts(elements) == FilterBoolean(TrimAll(Contents(elements)))

\* extractAuthors of the extractors that only read citation_author
CitationAuthorsOrBase(doc) ==
  LET citationAuthors == PushedContents(doc, "citation_author") IN
  IF Len(citationAuthors) > 0 THEN JoinComma(citationAuthors)
  ELSE Base_extractAuthors(doc)

\* extractAuthors with the fallback to HTML extraction
CitationAuthorsOrElements(doc, selector) ==
  LET citationAuthors == PushedContents(doc, "citation_author")
      authorElements == QuerySelectorAll(doc, selector)
  IN IF Len(citationAuthors) > 0 THEN JoinComma(citationAuthors)
     ELSE IF Len(authorElements) > 0 THEN JoinComma(ElementTexts(authorElements))
     ELSE Base_extractAuthors(doc)

\* extractDescription with the abstract element between the meta tags and the
\* base class: if (!metaDescription) { el = querySelector(sel);
\*   if (el) return el.textContent?.trim() || ''; }
\* return metaDescription || super.extractDescription();
DescriptionOrElement(doc, metaDescription, selector) ==
  LET found == QuerySelectorAll(doc, {selector}) IN
  IF metaDescription = <<>> /\ Len(found) > 0 THEN OrElse(Trim(found[1].content), <<>>)
  ELSE OrElse(metaDescription, Base_extractDescription(doc))

\* citation_keywords || keywords
KeywordsMeta(doc) ==
  OrElse(getMetaContent(doc, "citation_keywords"), getMetaContent(doc, "keywords"))

\* extractTags of every extractor but IEEE's
KeywordsOrBase(doc) ==
  IF KeywordsMeta(doc) # <<>> THEN SplitKeywords(KeywordsMeta(doc))
  ELSE Base_extractTags(doc)

\* a || b || ... || otherwise over getMetaContent of the names, in order
RECURSIVE Chain(_, _, _)
Chain(doc, names, otherwise) ==
  IF Len(names) = 0 THEN otherwise
  ELSE OrElse(getMetaContent(doc, Head(names)), Chain(doc, Tail(names), otherwise))

(***************************************************************************)
(* SSRNMetadataExtractor                                                   *)
(***************************************************************************)
SSRN_extractTitle(doc) ==
  Chain(doc, <<"citation_title", "og:title">>, Base_extractTitle(doc))
SSRN_extractAuthors(doc) == CitationAuthorsOrBase(doc)
SSRN_extractDescription(doc) ==
  Chain(doc, <<"description", "og:description">>, Base_extractDescription(doc))
SSRN_extractPublishedDate(doc) ==
  Chain(doc, <<"citation_publication_date", "citation_date", "citation_online_date">>,
        Base_extractPublishedDate(doc))
SSRN_extractDoi(doc) == Chain(doc, <<"citation_doi">>, Base_extractDoi(doc))
\* getMetaContent(citation_journal_title) || 'SSRN' || super.extractJournalName()
SSRN_extractJournalName(doc) ==
  Chain(doc, <<"citation_journal_title">>, OrElse(<<"S","S","R","N">>, Base_extractJournalName(doc)))
SSRN_extractTags(doc) == KeywordsOrBase(doc)

(***************************************************************************)
(* SpringerMetadataExtractor                                               *)
(***************************************************************************)
Springer_extractTitle(doc) ==
  Chain(doc, <<"citation_title", "og:title", "dc.title">>, Base_extractTitle(doc))
\* the DC creators ahead of citation_author
Springer_extractAuthors_dcFirst(doc) ==
  LET citationAuthors == PushedContents(doc, "citation_author")
      dcCreators == PushedContents(doc, "dc.creator")
  IN IF Len(dcCreators) > 0 THEN JoinComma(dcCreators)
     ELSE IF Len(citationAuthors) > 0 THEN JoinComma(citationAuthors)
     ELSE Base_extractAuthors(doc)

\* citation_author, then the fallback to DC creator, then the base class
Springer_extractAuthors(doc) ==
  LET citationAuthors == PushedContents(doc, "citation_author")
      dcCreators == PushedContents(doc, "dc.creator")
  IN IF Len(citationAuthors) > 0 THEN JoinComma(citationAuthors)
     ELSE IF Len(dcCreators) > 0 THEN JoinComma(dcCreators)
     ELSE Base_extractAuthors(doc)
\* the description chain with og:description ahead of dc.description
Springer_extractDescription_ogFirst(doc) ==
  Chain(doc, <<"og:description", "description", "dc.description">>,
        Base_extractDescription(doc))
Springer_extractDescription(doc) ==
  Chain(doc, <<"dc.description", "description", "og:description">>,
        Base_extractDescription(doc))
Springer_extractPublishedDate(doc) ==
  Chain(doc, <<"citation_publication_date", "citation_online_date", "dc.date">>,
        Base_extractPublishedDate(doc))
Springer_extractDoi(doc) ==
  Chain(doc, <<"citation_doi", "dc.identifier">>, Base_extractDoi(doc))
Springer_extractJournalName(doc) ==
  Chain(doc, <<"citation_journal_title", "citation_conference_title",
               "prism.publicationName">>, Base_extractJournalName(doc))
Springer_extractTags(doc) == KeywordsOrBase(doc)

(***************************************************************************)
(* ACMMetadataExtractor                                                    *)
(***************************************************************************)
ACM_extractTitle(doc) ==
  Chain(doc, <<"citation_title", "og:title", "dc.Title">>, Base_extractTitle(doc))
ACM_extractAuthors(doc) == CitationAuthorsOrBase(doc)
ACM_extractDescription(doc) ==
  Chain(doc, <<"description", "og:description">>, Base_extractDescription(doc))
ACM_extractPublishedDate(doc) ==
  Chain(doc, <<"citation_publication_date", "citation_date", "dc.Date">>,
        Base_extractPublishedDate(doc))
ACM_extractDoi(doc) == Chain(doc, <<"citation_doi", "dc.Identifier">>, Base_extractDoi(doc))
ACM_extractJournalName(doc) ==
  Chain(doc, <<"citation_journal_title", "citation_conference_title", "dc.Source">>,
        Base_extractJournalName(doc))
ACM_extractTags(doc) == KeywordsOrBase(doc)

(***************************************************************************)
(* CVFMetadataExtractor (extractDoi is the base class's)                   *)
(***************************************************************************)
CVF_extractTitle(doc) ==
  Chain(doc, <<"citation_title", "og:title">>, Base_extractTitle(doc))
CVF_extractAuthors(doc) == CitationAuthorsOrElements(doc, CVF_AUTHORS)
CVF_extractDescription(doc) ==
  DescriptionOrElement(doc,
    Chain(doc, <<"citation_abstract", "description", "og:description">>, <<>>), "#abstract")
CVF_extractPublishedDate(doc) ==
  Chain(doc, <<"citation_publication_date", "citation_date">>, Base_extractPublishedDate(doc))
CVF_extractJournalName(doc) ==
  Chain(doc, <<"citation_conference_title">>, Base_extractJournalName(doc))
CVF_extractTags(doc) == KeywordsOrBase(doc)

(***************************************************************************)
(* IEEEMetadataExtractor                                                   *)
(***************************************************************************)
\* the title chain with og:title ahead of citation_title
IEEE_extractTitle_ogFirst(doc) ==
  Chain(doc, <<"og:title", "citation_title">>, Base_extractTitle(doc))
IEEE_extractTitle(doc) ==
  Chain(doc, <<"citation_title", "og:title">>, Base_extractTitle(doc))
IEEE_extractAuthors(doc) == CitationAuthorsOrElements(doc, IEEE_AUTHORS)
IEEE_extractDescription(doc) ==
  DescriptionOrElement(doc, Chain(doc, <<"description", "og:description">>, <<>>),
                       ".abstract-text")
IEEE_extractPublishedDate(doc) ==
  Chain(doc, <<"citation_publication_date", "citation_date", "citation_online_date">>,
        Base_extractPublishedDate(doc))
\* the DOI chain that ends without the base class
IEEE_extractDoi_noBase(doc) == Chain(doc, <<"citation_doi">>, <<>>)
IEEE_extractDoi(doc) == Chain(doc, <<"citation_doi">>, Base_extractDoi(doc))
\* the journal chain ending in a fixed name, as the preprint servers' does
IEEE_extractJournalName_fixedName(doc) ==
  Chain(doc, <<"citation_journal_title", "citation_conference_title">>,
        OrElse(<<"I","E","E","E">>, Base_extractJournalName(doc)))
IEEE_extractJournalName(doc) ==
  Chain(doc, <<"citation_journal_title", "citation_conference_title">>,
        Base_extractJournalName(doc))
\* keywords meta, then the '.keywords .keyword' elements, then the base class
IEEE_extractTags(doc) ==
  LET keywordElements == QuerySelectorAll(doc, {".keywords .keyword"}) IN
  IF KeywordsMeta(doc) # <<>> THEN SplitKeywords(KeywordsMeta(doc))
  ELSE IF Len(keywordElements) > 0 THEN ElementTexts(keywordElements)
  ELSE Base_extractTags(doc)

(***************************************************************************)
(* ACLMetadataExtractor                                                    *)
(***************************************************************************)
ACL_extractTitle(doc) ==
  Chain(doc, <<"citation_title", "og:title">>, Base_extractTitle(doc))
ACL_extractAuthors(doc) == CitationAuthorsOrBase(doc)
ACL_extractDescription(doc) ==
  Chain(doc, <<"citation_abstract", "description", "og:description">>,
        Base_extractDescription(doc))
ACL_extractPublishedDate(doc) ==
  Chain(doc, <<"citation_publication_date", "citation_date">>, Base_extractPublishedDate(doc))
ACL_extractDoi(doc) == Chain(doc, <<"citation_doi">>, Base_extractDoi(doc))
ACL_extractJournalName(doc) ==
  Chain(doc, <<"citation_conference_title", "citation_journal_title">>,
        Base_extractJournalName(doc))
ACL_extractTags(doc) == KeywordsOrBase(doc)

(***************************************************************************)
(* MedRxivMetadataExtractor                                                *)
(***************************************************************************)
MedRxiv_extractTitle(doc) ==
  Chain(doc, <<"citation_title", "og:title", "DC.Title">>, Base_extractTitle(doc))
MedRxiv_extractAuthors(doc) == CitationAuthorsOrBase(doc)
MedRxiv_extractDescription(doc) ==
  Chain(doc, <<"citation_abstract", "description", "og:description">>,
        Base_extractDescription(doc))
MedRxiv_extractPublishedDate(doc) ==
  Chain(doc, <<"citation_publication_date", "citation_online_date", "DC.Date">>,
        Base_extractPublishedDate(doc))
MedRxiv_extractDoi(doc) ==
  Chain(doc, <<"citation_doi", "DC.Identifier">>, Base_extractDoi(doc))
\* getMetaContent(citation_journal_title) || 'medRxiv' || super.extractJournalName()
MedRxiv_extractJournalName(doc) ==
  Chain(doc, <<"citation_journal_title">>, OrElse(<<"m","e","d","R","x","i","v">>, Base_extractJournalName(doc)))
MedRxiv_extractTags(doc) == KeywordsOrBase(doc)

(***************************************************************************)
(* NeurIPSMetadataExtractor (extractDoi is the base class's)               *)
(***************************************************************************)
NeurIPS_extractTitle(doc) ==
  Chain(doc, <<"citation_title", "og:title">>, Base_extractTitle(doc))
NeurIPS_extractAuthors(doc) == CitationAuthorsOrElements(doc, NEURIPS_AUTHORS)
NeurIPS_extractDescription(doc) ==
  DescriptionOrElement(doc,
    Chain(doc, <<"citation_abstract", "description", "og:description">>, <<>>), ".abstract")
NeurIPS_extractPublishedDate(doc) ==
  Chain(doc, <<"citation_publication_date", "citation_date">>, Base_extractPublishedDate(doc))
\* getMetaContent(citation_conference_title) || 'NeurIPS' || super.extractJournalName()
NeurIPS_extractJournalName(doc) ==
  Chain(doc, <<"citation_conference_title">>, OrElse(<<"N","e","u","r","I","P","S">>, Base_extractJournalName(doc)))
NeurIPS_extractTags(doc) == KeywordsOrBase(doc)

(***************************************************************************)
(* The accessors, dispatched on the class of the extractor                 *)
(***************************************************************************)
extractTitle(self, doc) ==
  CASE self = "ssrn" -> SSRN_extractTitle(doc)
    [] self = "springer" -> Springer_extractTitle(doc)
    [] self = "acm" -> ACM_extractTitle(doc)
    [] self = "cvf" -> CVF_extractTitle(doc)
    [] self = "ieee" -> IEEE_extractTitle(doc)
    [] self = "acl" -> ACL_extractTitle(doc)
    [] self = "medrxiv" -> MedRxiv_extractTitle(doc)
    [] self = "neurips" -> NeurIPS_extractTitle(doc)

extractAuthors(self, doc) ==
  CASE self = "ssrn" -> SSRN_extractAuthors(doc)
    [] self = "springer" -> Springer_extractAuthors(doc)
    [] self = "acm" -> ACM_extractAuthors(doc)
    [] self = "cvf" -> CVF_extractAuthors(doc)
    [] self = "ieee" -> IEEE_extractAuthors(doc)
    [] self = "acl" -> ACL_extractAuthors(doc)
    [] self = "medrxiv" -> MedRxiv_extractAuthors(doc)
    [] self = "neurips" -> NeurIPS_extractAuthors(doc)

extractDescription(self, doc) ==
  CASE self = "ssrn" -> SSRN_extractDescription(doc)
    [] self = "springer" -> Springer_extractDescription(doc)
    [] self = "acm" -> ACM_extractDescription(doc)
    [] self = "cvf" -> CVF_extractDescription(doc)
    [] self = "ieee" -> IEEE_extractDescription(doc)
    [] self = "acl" -> ACL_extractDescription(doc)
    [] self = "medrxiv" -> MedRxiv_extractDescription(doc)
    [] self = "neurips" -> NeurIPS_extractDescription(doc)

extractPublishedDate(self, doc) ==
  CASE self = "ssrn" -> SSRN_extractPublishedDate(doc)
    [] self = "springer" -> Springer_extractPublishedDate(doc)
    [] self = "acm" -> ACM_extractPublishedDate(doc)
    [] self = "cvf" -> CVF_extractPublishedDate(doc)
    [] self = "ieee" -> IEEE_extractPublishedDate(doc)
    [] self = "acl" -> ACL_extractPublishedDate(doc)
    [] self = "medrxiv" -> MedRxiv_extractPublishedDate(doc)
    [] self = "neurips" -> NeurIPS_extractPublishedDate(doc)

extractDoi(self, doc) ==
  CASE self = "ssrn" -> SSRN_extractDoi(doc)
    [] self = "springer" -> Springer_extractDoi(doc)
    [] self = "acm" -> ACM_extractDoi(doc)
    [] self = "cvf" -> Base_extractDoi(doc)
    [] self = "ieee" -> IEEE_extractDoi(doc)
    [] self = "acl" -> ACL_extractDoi(doc)
    [] self = "medrxiv" -> MedRxiv_extractDoi(doc)
    [] self = "neurips" -> Base_extractDoi(doc)

extractJournalName(self, doc) ==
  CASE self = "ssrn" -> SSRN_extractJournalName(doc)
    [] self = "springer" -> Springer_extractJournalName(doc)
    [] self = "acm" -> ACM_extractJournalName(doc)
    [] self = "cvf" -> CVF_extractJournalName(doc)
    [] self = "ieee" -> IEEE_extractJournalName(doc)
    [] self = "acl" -> ACL_extractJournalName(doc)
    [] self = "medrxiv" -> MedRxiv_extractJournalName(doc)
    [] self = "neurips" -> NeurIPS_extractJournalName(doc)

extractTags(self, doc) ==
  CASE self = "ssrn" -> SSRN_extractTags(doc)
    [] self = "springer" -> Springer_extractTags(doc)
    [] self = "acm" -> ACM_extractTags(doc)
    [] self = "cvf" -> CVF_extractTags(doc)
    [] self = "ieee" -> IEEE_extractTags(doc)
    [] self = "acl" -> ACL_extractTags(doc)
    [] self = "medrxiv" -> MedRxiv_extractTags(doc)
    [] self = "neurips" -> NeurIPS_extractTags(doc)

\* extractor.<op>() of an extractor of class self bound to doc
Extract(op, self, doc) ==
  CASE op = "extractTitle" -> extractTitle(self, doc)
    [] op = "extractAuthors" -> extractAuthors(self, doc)
    [] op = "extractDescription" -> extractDescription(self, doc)
    [] op = "extractPublishedDate" -> extractPublishedDate(self, doc)
    [] op = "extractDoi" -> extractDoi(self, doc)
    [] op = "extractJournalName" -> extractJournalName(self, doc)
    [] op = "extractTags" -> extractTags(self, doc)

\* the base class's implementation of an accessor
Base(op, doc) ==
  CASE op = "extractTitle" -> Base_extractTitle(doc)
    [] op = "extractAuthors" -> Base_extractAuthors(doc)
    [] op = "extractDescription" -> Base_extractDescription(doc)
    [] op = "extractPublishedDate" -> Base_extractPublishedDate(doc)
    [] op = "extractDoi" -> Base_extractDoi(doc)
    [] op = "extractJournalName" -> Base_extractJournalName(doc)
    [] op = "extractTags" -> Base_extractTags(doc)

(***************************************************************************)
(* Pages handed to createMetadataExtractor                                 *)
(***************************************************************************)
\* most nodes of a page
MaxNodes == 2

\* the names and selectors the extractors look for, by the field they serve
TitleKeys == {"citation_title", "og:title", "dc.title", "dc.Title", "DC.Title"}
AuthorKeys == {"citation_author", "dc.creator", "author"} \cup NEURIPS_AUTHORS \cup CVF_AUTHORS
DescriptionKeys == {"citation_abstract", "dc.description", "description", "og:description",
                    "#abstract", ".abstract-text", ".abstract"}
DateKeys == {"citation_publication_date", "citation_date", "citation_online_date",
             "dc.date", "dc.Date", "DC.Date", "date"}
DoiKeys == {"citation_doi", "dc.identifier", "dc.Identifier", "DC.Identifier", "doi"}
JournalKeys == {"citation_journal_title", "citation_conference_title",
                "prism.publicationName", "dc.Source"}
TagKeys == {"citation_keywords", "keywords", ".keywords .keyword"}
\* a meta tag no extractor looks for
OtherKeys == {"viewport"}

\* the keys that are elements, not meta tags
ElementKeys == NEURIPS_AUTHORS \cup CVF_AUTHORS
               \cup {"#abstract", ".abstract-text", ".abstract", ".keywords .keyword"}
\* the keys a page may carry several times
RepeatableKeys == {"citation_author", "dc.creator", "author"} \cup ElementKeys

Letter(i) == << <<"A">>, <<"B">>, <<"C">>, <<"D">> >>[i]

\* the i-th node of a page: a value that tells the node, or no value (a meta
\* tag with empty content, an element with blank text)
Node(key, i, filled) ==
  [key |-> key,
   content |->
     IF key \in ElementKeys THEN (IF filled THEN <<" ">> \o Letter(i) \o <<" ">> ELSE <<" ">>)
     ELSE IF ~filled THEN <<>>
     ELSE IF key \in {"citation_keywords", "keywords"} THEN Letter(i) \o <<";",","," ","k"," ">>
     ELSE Letter(i)]

\* a page carries a meta tag that is read with getMetaContent at most once
WellFormed(doc) ==
  \A i, j \in 1..Len(doc) :
    (i # j /\ doc[i].key = doc[j].key) => doc[i].key \in RepeatableKeys

\* the pages of at most MaxNodes nodes with keys in K
DocsOver(K) ==
  UNION { { d \in { [i \in 1..n |-> Node(f[i][1], i, f[i][2])] : f \in [1..n -> K \X BOOLEAN] } :
              WellFormed(d) } : n \in 0..MaxNodes }

Documents ==
  UNION { DocsOver(K) : K \in {TitleKeys, AuthorKeys, DescriptionKeys, DateKeys, DoiKeys,
                                JournalKeys, TagKeys, OtherKeys} }

(***************************************************************************)
(* Calls on a metadata extractor                                           *)
(***************************************************************************)
\* integration.createMetadataExtractor(document): new <Class>(document)
CreateMetadataExtractor(self) ==
  /\ extractor = "none"
  /\ extractor' = self
  /\ created' = document
  /\ UNCHANGED <<href, contentScriptMatches, document, registry, call>>

\* the page the extractor holds on to since its construction
ThisDocument_snapshot == created
\* this.document: the Document the extractor was constructed with, held by
\* reference, so the page as it is now
ThisDocument == document

\* a call of the accessor op, which returns ret
Accessor(op, ret) ==
  /\ extractor # "none"
  /\ call = NoCall
  /\ call' = [op |-> op, self |-> extractor, arg |-> <<>>, ret |-> ret]
  /\ UNCHANGED <<href, contentScriptMatches, document, created, extractor, registry>>

\* the caller takes the value returned, and may call again
Return ==
  /\ call # NoCall
  /\ call' = NoCall
  /\ UNCHANGED <<href, contentScriptMatches, document, created, extractor, registry>>

InitMetadata ==
  /\ href = <<>>
  /\ contentScriptMatches = <<>>
  /\ document \in Documents
  /\ created = <<>>
  /\ extractor = "none"
  /\ registry = <<>>
  /\ call = NoCall

NextMetadata ==
  \/ \E self \in Publishers : CreateMetadataExtractor(self)
  \/ Accessor("extractTitle", extractTitle(extractor, ThisDocument))
  \/ Accessor("extractAuthors", extractAuthors(extractor, ThisDocument))
  \/ Accessor("extractDescription", extractDescription(extractor, ThisDocument))
  \/ Accessor("extractPublishedDate", extractPublishedDate(extractor, ThisDocument))
  \/ Accessor("extractDoi", extractDoi(extractor, ThisDocument))
  \/ Accessor("extractJournalName", extractJournalName(extractor, ThisDocument))
  \/ Accessor("extractTags", extractTags(extractor, ThisDocument))
  \/ Return

SpecMetadata == InitMetadata /\ [][NextMetadata]_vars

\* whether the i-th node of a page has a value
Filled(doc, i) == doc[i] # Node(doc[i].key, i, FALSE)

\* the page changes under the extractor: a script of the page gives the i-th
\* node a value, or takes its value away
ChangePage(i) ==
  /\ extractor # "none"
  /\ call = NoCall
  /\ i \in 1..Len(document)
  /\ document' = [document EXCEPT ![i] = Node(document[i].key, i, ~Filled(document, i))]
  /\ UNCHANGED <<href, contentScriptMatches, created, extractor, registry, call>>

\* the accessors of an extractor called on a page that changes between the calls
NextLivePage ==
  \/ NextMetadata
  \/ \E i \in 1..MaxNodes : ChangePage(i)

SpecLivePage == InitMetadata /\ [][NextLivePage]_vars


(***************************************************************************)
(* The registry                                                            *)
(***************************************************************************)
\* an integration object: the constant it is exported as, and its id field
Integration(ref, id) == [ref |-> ref, id |-> id]

SSRN_id == <<"s","s","r","n">>
Springer_id == <<"s","p","r","i","n","g","e","r">>
ACM_id == <<"a","c","m">>
CVF_id == <<"c","v","f">>
IEEE_id == <<"i","e","e","e">>
ACL_id == <<"a","c","l">>
MedRxiv_id == <<"m","e","d","r","x","i","v">>
NeurIPS_id == <<"n","e","u","r","i","p","s">>

\* the ids of the integrations whose modules the registry imports from
\* './arxiv', './openreview', ...: the identity of each publisher's instance
ImportedIds ==
  [arxiv |-> <<"a","r","x","i","v">>, openreview |-> <<"o","p","e","n","r","e","v","i","e","w">>, nature |-> <<"n","a","t","u","r","e">>,
   pnas |-> <<"p","n","a","s">>, sciencedirect |-> <<"s","c","i","e","n","c","e","d","i","r","e","c","t">>, wiley |-> <<"w","i","l","e","y">>,
   plos |-> <<"p","l","o","s">>, biorxiv |-> <<"b","i","o","r","x","i","v">>,
   semanticscholar |-> <<"s","e","m","a","n","t","i","c","s","c","h","o","l","a","r">>, misc |-> <<"m","i","s","c">>]

sourceIntegrations ==
  << Integration("arxivIntegration", ImportedIds.arxiv),
     Integration("openReviewIntegration", ImportedIds.openreview),
     Integration("natureIntegration", ImportedIds.nature),
     Integration("pnasIntegration", ImportedIds.pnas),
     Integration("scienceDirectIntegration", ImportedIds.sciencedirect),
     Integration("springerIntegration", Springer_id),
     Integration("ieeeIntegration", IEEE_id),
     Integration("acmIntegration", ACM_id),
     Integration("aclIntegration", ACL_id),
     Integration("neuripsIntegration", NeurIPS_id),
     Integration("cvfIntegration", CVF_id),
     Integration("wileyIntegration", ImportedIds.wiley),
     Integration("plosIntegration", ImportedIds.plos),
     Integration("bioRxivIntegration", ImportedIds.biorxiv),
     Integration("medRxivIntegration", MedRxiv_id),
     Integration("ssrnIntegration", SSRN_id),
     Integration("semanticScholarIntegration", ImportedIds.semanticscholar),
     Integration("miscIntegration", ImportedIds.misc) >>

\* find's result when no element satisfies the predicate
Undefined == Integration("undefined", <<>>)

\* return sourceIntegrations: the array itself
getAllIntegrations == registry

\* Array.prototype.find over sourceIntegrations: the first element whose
\* index is among hits, undefined when there is none
Find(hits) == IF hits = {} THEN Undefined ELSE registry[Least(hits)]

\* s.startsWith(prefix)
StartsWith(s, prefix) == Len(prefix) <= Len(s) /\ SubSeq(s, 1, Len(prefix)) = prefix

\* the lookup with the ids compared by prefix
getIntegrationById_byPrefix(id) ==
  Find({i \in 1..Len(registry) : StartsWith(registry[i].id, id)})
\* sourceIntegrations.find(integration => integration.id === id)
getIntegrationById(id) ==
  Find({i \in 1..Len(registry) : registry[i].id = id})

\* Array.prototype.flatMap, given the arrays the callback returns
RECURSIVE FlatMap(_)
FlatMap(arrays) == IF Len(arrays) = 0 THEN <<>> ELSE Head(arrays) \o FlatMap(Tail(arrays))

\* the aggregate that takes the first pattern of each integration only
getAllContentScriptMatches_firstOnly ==
  FlatMap([i \in 1..Len(registry) |->
             LET matches == contentScriptMatches[registry[i].ref] IN
             IF Len(matches) = 0 THEN <<>> ELSE << matches[1] >>])
\* sourceIntegrations.flatMap(integration => integration.contentScriptMatches)
getAllContentScriptMatches ==
  FlatMap([i \in 1..Len(registry) |-> contentScriptMatches[registry[i].ref]])

\* the array after a call that reverses it in place on the way to listing it
ArrayAfter_reversedInPlace(op, list) ==
  IF op = "getAllIntegrations" THEN [i \in 1..Len(list) |-> list[Len(list) + 1 - i]]
  ELSE list
\* the array after a call of op: return, find and flatMap read the array and
\* write nothing to it
ArrayAfter(op, list) == list

(***************************************************************************)
(* Calls on the registry                                                   *)
(***************************************************************************)
\* longest contentScriptMatches list of an integration
MaxMatches == 2

Refs == {sourceIntegrations[i].ref : i \in 1..Len(sourceIntegrations)}
MatchPatterns == {<<"*",":","/","/","a","/","*">>, <<"*",":","/","/","b","/","*">>}
MatchLists == UNION {[1..n -> MatchPatterns] : n \in 0..MaxMatches}

\* the contentScriptMatches fields: one integration with a list of its own,
\* the others with a common list
MatchFields ==
  {[ref \in Refs |-> IF ref = own THEN a ELSE b] : own \in Refs, a \in MatchLists, b \in MatchLists}

\* the ids looked up: the registered ones, and unknown ones
IdsTried ==
  {sourceIntegrations[i].id : i \in 1..Len(sourceIntegrations)}
  \cup {<<>>, <<"S","S","R","N">>, <<"s","s","r">>, <<"s","s","r","n"," ">>, <<"a","r","x","i","v",".","o","r","g">>, <<"u","n","k","n","o","w","n">>}

GetAllIntegrations ==
  /\ call' = [op |-> "getAllIntegrations", self |-> "registry", arg |-> <<>>,
              ret |-> getAllIntegrations]
  /\ registry' = ArrayAfter("getAllIntegrations", registry)
  /\ UNCHANGED <<href, contentScriptMatches, document, created, extractor>>

GetIntegrationById(id) ==
  /\ call' = [op |-> "getIntegrationById", self |-> "registry", arg |-> id,
              ret |-> getIntegrationById(id)]
  /\ registry' = ArrayAfter("getIntegrationById", registry)
  /\ UNCHANGED <<href, contentScriptMatches, document, created, extractor>>

GetAllContentScriptMatches ==
  /\ call' = [op |-> "getAllContentScriptMatches", self |-> "registry", arg |-> <<>>,
              ret |-> getAllContentScriptMatches]
  /\ registry' = ArrayAfter("getAllContentScriptMatches", registry)
  /\ UNCHANGED <<href, contentScriptMatches, document, created, extractor>>

InitRegistry ==
  /\ href = <<>>
  /\ contentScriptMatches \in MatchFields
  /\ document = <<>>
  /\ created = <<>>
  /\ extractor = "none"
  /\ registry = sourceIntegrations
  /\ call = NoCall

NextRegistry ==
  \/ GetAllIntegrations
  \/ \E id \in IdsTried : GetIntegrationById(id)
  \/ GetAllContentScriptMatches

SpecRegistry == InitRegistry /\ [][NextRegistry]_vars

(***************************************************************************)
(* Properties of extractPaperId                                            *)
(***************************************************************************)
IsPaperIdCall == call.op = "extractPaperId"

\* the capture groups of a match joined with '-'
RECURSIVE JoinDash(_)
JoinDash(caps) ==
  IF Len(caps) = 0 THEN <<>>
  ELSE IF Len(caps) = 1 THEN caps[1]
  ELSE caps[1] \o Dash \o JoinDash(Tail(caps))

\* the indices of the patterns of an integration that match a URL
Matching(self, u) ==
  {i \in 1..Len(urlPatterns(self)) : Match(u, urlPatterns(self)[i]) # NoMatch}

\* C1: extractPaperId tries the patterns in declared order; its result is made
\* of the capture groups of the first pattern, in that order, that matches,
\* whatever later patterns match.
C1_FirstPatternDecides ==
  IsPaperIdCall =>
    \A i \in Matching(call.self, call.arg) :
      (\A j \in Matching(call.self, call.arg) : i <= j)
        => call.ret = JoinDash(Match(call.arg, urlPatterns(call.self)[i]).caps)

\* C1 witness: two patterns match with different groups, and the earlier decided
C1_Witness ==
  /\ IsPaperIdCall
  /\ \E i, j \in Matching(call.self, call.arg) :
       /\ i < j
       /\ Match(call.arg, urlPatterns(call.self)[i]).caps
            # Match(call.arg, urlPatterns(call.self)[j]).caps
       /\ call.ret = JoinDash(Match(call.arg, urlPatterns(call.self)[i]).caps)

\* C2: extractPaperId returns null exactly when no pattern of the integration
\* matches the URL, and an identifier it returns is never the empty string.
C2_NullIffNoMatch ==
  IsPaperIdCall =>
    /\ (call.ret = Null) <=> (Matching(call.self, call.arg) = {})
    /\ call.ret # Null => Len(call.ret) > 0

\* C2 witness: a URL that carries the host and path of a pattern but no
\* identifier yields null
C2_Witness ==
  /\ IsPaperIdCall
  /\ call.self = "ieee"
  /\ call.arg = <<"h","t","t","p","s",":","/","/","i","e","e","e","x","p","l","o","r","e",".","i","e","e","e",".","o","r","g","/","d","o","c","u","m","e","n","t","/">>
  /\ call.ret = Null

\* whether the suffix of DOI d (what follows the first '/') is free of 'v', '?'
\* and whitespace
PlainSuffix(d) ==
  \A i \in 1..Len(d) :
    (\E j \in 1..(i - 1) : d[j] = "/") => d[i] \notin ({"v", "?"} \cup Whitespace)

\* what C3 says of the DOIs in D: the versioned URL of d yields d, as the
\* unversioned one does
VersionStripped(D) ==
  (IsPaperIdCall /\ call.self = "medrxiv") =>
    \A p \in Protocols, d \in D, n \in 1..MaxVersion :
      call.arg = p \o PreprintUrl(d, n)
        => /\ call.ret = d
           /\ extractPaperId("medrxiv", p \o PreprintUrl(d, 0)) = d

\* C3 as stated: for every DOI d of the form 10.<digits>/<suffix> and every
\* version n, the medRxiv URL of d with 'v' n appended yields exactly d.
C3_Original == VersionStripped(Dois)

\* C3 amended: the same for every DOI whose suffix holds no 'v', no '?' and no
\* whitespace.
C3_VersionStripped == VersionStripped({d \in Dois : PlainSuffix(d)})

\* C3 witness: the URL of the example, version 2, yields the DOI
C3_Witness ==
  /\ IsPaperIdCall
  /\ call.self = "medrxiv"
  /\ call.arg = <<"h","t","t","p","s",":","/","/">> \o PreprintUrl(<<"1","0",".","1","1","0","1","/","2","0","2","1",".","0","1",".","0","1",".","0","0","0","0","0","1">>, 2)
  /\ call.ret = <<"1","0",".","1","1","0","1","/","2","0","2","1",".","0","1",".","0","1",".","0","0","0","0","0","1">>

\* u with its protocol removed
StripProtocol(u) ==
  IF LitAt(<<"h","t","t","p","s",":","/","/">>, u, 1) THEN SubSeq(u, 9, Len(u))
  ELSE IF LitAt(<<"h","t","t","p",":","/","/">>, u, 1) THEN SubSeq(u, 8, Len(u))
  ELSE u

HasQuery(u) == \E i \in 1..Len(u) : u[i] = "?"

\* the query strings appended to u: '?...' or, where u has a query, '&...'
Appended(u) ==
  { (IF HasQuery(u) THEN <<"&">> ELSE <<"?">>) \o b :
      b \in { <<"a","=","1">> } \cup { <<"r","=">> \o r : r \in ReferredUrls } }

\* whether some pattern of the integration matches text of u \o q that
\* reaches into q
ReachesInto(self, u, q) ==
  \E i \in 1..Len(urlPatterns(self)), s \in 1..(Len(u) + Len(q)) :
    LET ps == Paths(urlPatterns(self)[i], 1, u \o q, s, 0, <<>>) IN
    \E k \in 1..Len(ps) : ps[k].e - 1 > Len(u)

ProtocolTolerated ==
  \A p \in Protocols : extractPaperId(call.self, p \o StripProtocol(call.arg)) = call.ret

\* C4 as stated: a URL that yields an identifier yields the same identifier
\* with any query string appended and with its protocol changed or omitted.
C4_Original ==
  (IsPaperIdCall /\ call.ret # Null) =>
    /\ ProtocolTolerated
    /\ \A q \in Appended(call.arg) : extractPaperId(call.self, call.arg \o q) = call.ret

\* What holds of C4: the protocol never matters, and an appended query string
\* matters only when some pattern of the integration matches text that
\* reaches into it.
C4_QueryAndProtocolTolerated ==
  (IsPaperIdCall /\ call.ret # Null) =>
    /\ ProtocolTolerated
    /\ \A q \in Appended(call.arg) :
         ~ReachesInto(call.self, call.arg, q)
           => extractPaperId(call.self, call.arg \o q) = call.ret

\* an https URL with an identifier, which a query string carrying
\* another paper's URL leaves unchanged
C4_Witness ==
  /\ IsPaperIdCall
  /\ call.ret # Null
  /\ LitAt(<<"h","t","t","p","s",":","/","/">>, call.arg, 1)
  /\ \E q \in Appended(call.arg) :
       /\ Len(q) > 4
       /\ ~ReachesInto(call.self, call.arg, q)
       /\ extractPaperId(call.self, call.arg \o q) = call.ret


(***************************************************************************)
(* Properties of the metadata accessors                                    *)
(***************************************************************************)
AccessorOps == {"extractTitle", "extractAuthors", "extractDescription",
                "extractPublishedDate", "extractDoi", "extractJournalName", "extractTags"}
IsAccessorCall == call.op \in AccessorOps

RelevantKeys == TitleKeys \cup AuthorKeys \cup DescriptionKeys \cup DateKeys \cup DoiKeys
                \cup JournalKeys \cup TagKeys
MetaKeys == RelevantKeys \ ElementKeys

\* the page made of one node of kind k that has a value
PageOf(k) == << Node(k, 1, TRUE) >>

\* the base class's accessor reads k; the accessor of class self reads k
BaseReads(op, k) == Base(op, PageOf(k)) # Base(op, <<>>)
Reads(self, op, k) == Extract(op, self, PageOf(k)) # Extract(op, self, <<>>)

\* the generic fallback tags of a field, and the publisher-specific meta
\* tags and elements the accessor of class self consults for it
GenericOf == [op \in AccessorOps |-> {k \in MetaKeys : BaseReads(op, k)}]
Generic(op) == GenericOf[op]
PublisherSpecificOf ==
  [self \in Publishers |->
    [op \in AccessorOps |-> {k \in RelevantKeys : Reads(self, op, k) /\ ~BaseReads(op, k)}]]
PublisherSpecific(self, op) == PublisherSpecificOf[self][op]

\* doc carries a node of kind k with a value (for an element: text that is not blank)
Yields(doc, k) == \E i \in 1..Len(doc) : doc[i].key = k /\ Trim(doc[i].content) # <<>>
Present(doc, k) == \E i \in 1..Len(doc) : doc[i].key = k

\* what the tags named k say for the field of op
Value(op, doc, k) ==
  CASE op = "extractAuthors" -> JoinComma(PushedContents(doc, k))
    [] op = "extractTags" -> SplitKeywords(getMetaContent(doc, k))
    [] OTHER -> getMetaContent(doc, k)

\* the extractors whose extractJournalName ends in a fixed name
FixedJournalName(self) ==
  CASE self = "ssrn" -> <<"S","S","R","N">>
    [] self = "medrxiv" -> <<"m","e","d","R","x","i","v">>
    [] self = "neurips" -> <<"N","e","u","r","I","P","S">>
    [] OTHER -> <<>>

NoRelevant(doc) == \A i \in 1..Len(doc) : doc[i].key \notin RelevantKeys

\* C5 as stated: on a page with no relevant meta tag and no relevant element
\* every accessor returns the empty string, extractTags the empty list.
C5_Original == (IsAccessorCall /\ NoRelevant(document)) => call.ret = <<>>

\* C5, amended: on a page with no relevant meta tag and no relevant element
\* every accessor returns the empty string and extractTags the empty list,
\* except extractJournalName of the SSRN, medRxiv and NeurIPS extractors,
\* which returns 'SSRN', 'medRxiv' and 'NeurIPS'.
C5_EmptyOrFixedName ==
  (IsAccessorCall /\ NoRelevant(document)) =>
    call.ret = (IF call.op = "extractJournalName" THEN FixedJournalName(call.self) ELSE <<>>)

C5_Witness ==
  /\ call.op = "extractJournalName" /\ call.self = "ieee"
  /\ NoRelevant(document) /\ Len(document) > 0
  /\ call.ret = <<>>

\* the Dublin-Core title tags
DcTitle == {"dc.title", "dc.Title", "DC.Title"}

\* some publisher-specific meta tag among tags and some generic fallback tag
\* of the field have a value: the result is what one of those
\* publisher-specific tags says
PrefersSpecific(tags) ==
  LET specific == {k \in tags \cap MetaKeys : Yields(document, k)} IN
  (specific # {} /\ \E g \in Generic(call.op) : Yields(document, g)) =>
    \E k \in specific : call.ret = Value(call.op, document, k)

TagFamilies ==
  { [self |-> "springer", op |-> "extractTitle", citation |-> "citation_title",
     dc |-> "dc.title", og |-> "og:title"],
    [self |-> "acm", op |-> "extractTitle", citation |-> "citation_title",
     dc |-> "dc.Title", og |-> "og:title"],
    [self |-> "medrxiv", op |-> "extractTitle", citation |-> "citation_title",
     dc |-> "DC.Title", og |-> "og:title"],
    [self |-> "springer", op |-> "extractDescription", citation |-> "citation_abstract",
     dc |-> "dc.description", og |-> "og:description"] }

\* the call is the accessor of f, on a page without the citation tag and
\* with both the Dublin-Core and the Open-Graph tag not empty
DcAndOgOnly(f) ==
  /\ call.op = f.op /\ call.self = f.self
  /\ ~Present(document, f.citation)
  /\ Yields(document, f.dc) /\ Yields(document, f.og)

NothingSpecific ==
  /\ IsAccessorCall
  /\ \A k \in PublisherSpecific(call.self, call.op) : ~Yields(document, k)

\* the author elements of the extractors that fall back to HTML extraction
AuthorElements(self) ==
  CASE self = "cvf" -> CVF_AUTHORS
    [] self = "ieee" -> IEEE_AUTHORS
    [] self = "neurips" -> NEURIPS_AUTHORS
    [] OTHER -> {}

MatchesAt(k) == contentScriptMatches[sourceIntegrations[k].ref]

\* how many match patterns the first k registered integrations have together
RECURSIVE MatchesUpTo(_)
MatchesUpTo(k) == IF k = 0 THEN 0 ELSE MatchesUpTo(k - 1) + Len(MatchesAt(k))

\* C9: getAllContentScriptMatches returns every integration's match patterns,
\* the integrations in registry order and each one's patterns in their order:
\* the j-th pattern of the k-th integration stands right after all patterns
\* of the integrations before it, and the length is the sum of the lengths.
C9_ConcatenationInOrder ==
  call.op = "getAllContentScriptMatches" =>
    /\ Len(call.ret) = MatchesUpTo(Len(sourceIntegrations))
    /\ \A k \in 1..Len(sourceIntegrations) :
         \A j \in 1..Len(MatchesAt(k)) :
           call.ret[MatchesUpTo(k - 1) + j] = MatchesAt(k)[j]

C9_Witness ==
  /\ call.op = "getAllContentScriptMatches"
  /\ \E k \in 2..Len(sourceIntegrations) :
       /\ Len(MatchesAt(k)) = 2 /\ MatchesAt(k)[1] # MatchesAt(k)[2]
       /\ MatchesAt(k) # MatchesAt(1) /\ MatchesAt(1) # <<>>
  /\ Len(call.ret) > Len(sourceIntegrations)

\* C10: getIntegrationById returns undefined for an id that no registered
\* integration has, and the integration itself for the id of a registered
\* integration; the ids of the registered integrations are pairwise distinct.
C10_ExactOrUndefined ==
  call.op = "getIntegrationById" =>
    LET n == Len(sourceIntegrations) IN
    /\ \A i, j \in 1..n : sourceIntegrations[i].id = sourceIntegrations[j].id => i = j
    /\ \A i \in 1..n : call.arg = sourceIntegrations[i].id => call.ret = sourceIntegrations[i]
    /\ (\A i \in 1..n : call.arg # sourceIntegrations[i].id) => call.ret = Undefined

C10_Witness ==
  /\ call.op = "getIntegrationById"
  /\ call.arg = SSRN_id
  /\ call.ret = sourceIntegrations[16]
  /\ call.ret.ref = "ssrnIntegration"


\* C11: whatever calls of getAllIntegrations, getIntegrationById and
\* getAllContentScriptMatches have been made, the registry list holds the 18
\* integrations it held at initialization, in the same order, and
\* getAllIntegrations has returned that list.
C11_RegistryUnchanged ==
  /\ registry = sourceIntegrations
  /\ Len(registry) = 18
  /\ call.op = "getAllIntegrations" => call.ret = sourceIntegrations

C11_Witness ==
  /\ call.op = "getAllIntegrations"
  /\ Len(call.ret) = 18
  /\ call.ret[1].ref = "arxivIntegration" /\ call.ret[18].ref = "miscIntegration"
  /\ registry = call.ret


(***************************************************************************)
(* Properties across integrations                                         *)
(***************************************************************************)
\* the integrations that have a pattern matching u
MatchedBy(u) == {self \in Publishers : Matching(self, u) # {}}

\* C12 as stated: no URL is matched by the patterns of two different
\* integrations.
C12_Original == IsPaperIdCall => Cardinality(MatchedBy(call.arg)) <= 1

\* a page of a publisher: its URL and the identifier the publisher gives the
\* paper it shows
Paper(self, url, id) == [self |-> self, url |-> url, id |-> id]

Papers ==
  { Paper("acm", <<"d","l",".","a","c","m",".","o","r","g","/","d","o","i","/","1","0",".","1","1","4","5","/","3","2","9","2","5","0","0",".","3","3","3","0","7","0","1">>, <<"1","0",".","1","1","4","5","/","3","2","9","2","5","0","0",".","3","3","3","0","7","0","1">>),
    Paper("acm", <<"d","l",".","a","c","m",".","o","r","g","/","d","o","i","/","1","0",".","1","1","4","5","/","3","2","9","2","5","0","0",".","3","3","3","0","7","0","2">>, <<"1","0",".","1","1","4","5","/","3","2","9","2","5","0","0",".","3","3","3","0","7","0","2">>),
    Paper("acm", <<"d","l",".","a","c","m",".","o","r","g","/","d","o","i","/","1","0",".","1","1","4","5","/","3","3">>, <<"1","0",".","1","1","4","5","/","3","3">>),
    Paper("acl", <<"a","c","l","a","n","t","h","o","l","o","g","y",".","o","r","g","/","P","1","9","-","1","0","0","1">>, <<"P","1","9","-","1","0","0","1">>),
    Paper("acl", <<"a","c","l","a","n","t","h","o","l","o","g","y",".","o","r","g","/","2","0","2","0",".","a","c","l","-","m","a","i","n",".","1">>, <<"2","0","2","0",".","a","c","l","-","m","a","i","n",".","1">>),
    Paper("acl", <<"a","c","l","a","n","t","h","o","l","o","g","y",".","o","r","g","/","P","1","9",".","1","-","2","2">>, <<"P","1","9",".","1","-","2","2">>),
    Paper("springer", <<"l","i","n","k",".","s","p","r","i","n","g","e","r",".","c","o","m","/","a","r","t","i","c","l","e","/","1","0",".","1","0","0","7","/","s","1","-","2">>, <<"1","0",".","1","0","0","7","/","s","1","-","2">>),
    Paper("springer", <<"l","i","n","k",".","s","p","r","i","n","g","e","r",".","c","o","m","/","c","h","a","p","t","e","r","/","1","0",".","1","0","0","7","/","9","7","8","_","3">>, <<"1","0",".","1","0","0","7","/","9","7","8","_","3">>) }
  \cup { Paper("medrxiv", PreprintUrl(d, 0), d) : d \in Dois }

\* C13 as stated: within one integration, two matching URLs whose publisher
\* identifiers differ yield different identifiers.
C13_Original ==
  IsPaperIdCall =>
    \A p, q \in Papers :
      ( /\ p.self = call.self /\ p.url = call.arg /\ call.ret # Null
        /\ q.self = call.self /\ q.id # p.id
        /\ extractPaperId(q.self, q.url) # Null )
      => extractPaperId(q.self, q.url) # call.ret

\* the two URL forms of a CVF paper of a conference, a year and a slug
CvfForms(conf, year, slug) ==
  { <<"o","p","e","n","a","c","c","e","s","s",".","t","h","e","c","v","f",".","c","o","m","/","c","o","n","t","e","n","t","_">> \o conf \o <<"_">> \o year \o <<"/","h","t","m","l","/">> \o slug \o <<".","h","t","m","l">>,
    <<"o","p","e","n","a","c","c","e","s","s",".","t","h","e","c","v","f",".","c","o","m","/","c","o","n","t","e","n","t","_">> \o conf \o <<"_">> \o year \o <<"/","p","a","p","e","r","s","/">> \o slug \o <<".","p","d","f">> }

\* the URL forms of a NeurIPS paper of a year and a hash
NeuripsForms(year, hash) ==
  { host \o year \o kind \o hash :
      host \in { <<"p","a","p","e","r","s",".","n","i","p","s",".","c","c","/","p","a","p","e","r","/">>, <<"p","r","o","c","e","e","d","i","n","g","s",".","n","e","u","r","i","p","s",".","c","c","/","p","a","p","e","r","/">> },
      kind \in { <<"/","h","a","s","h","/">>, <<"/","f","i","l","e","/">> } }
  \cup { <<"p","r","o","c","e","e","d","i","n","g","s",".","n","e","u","r","i","p","s",".","c","c","/","p","a","p","e","r","_","f","i","l","e","s","/","p","a","p","e","r","/">> \o year \o <<"/","h","a","s","h","/">> \o hash }

\* a form with a protocol before it and a plain query string or fragment
\* after it
Dressed(forms) ==
  { p \o u \o t : p \in Protocols, u \in forms, t \in { <<>>, <<"?","a","=","1">>, <<"#","s">> } }

CvfPaper == [conf |-> <<"C","V","P","R">>, year |-> <<"2","0","2","0">>, slug |-> <<"F","o","o","_","p","a","p","e","r">>]
NeuripsPaper == [year |-> <<"2","0","2","0">>, hash |-> <<"a","b","1","2">>]

\* the number of capture groups of the patterns of a composite identifier
Groups(self) == IF self = "cvf" THEN 3 ELSE 2

\* C14: CVF and NeurIPS return all capture groups of the matching pattern
\* joined with '-' in group order: '<conference>-<year>-<slug>' for the html
\* and the pdf URL of a CVF paper alike, '<year>-<hash>' for the hash and the
\* file URL of a NeurIPS paper alike.
C14_CompositeIdentifier ==
  (IsPaperIdCall /\ call.self \in {"cvf", "neurips"}) =>
    /\ call.ret # Null =>
         \E i \in Matching(call.self, call.arg) :
           LET caps == Match(call.arg, urlPatterns(call.self)[i]).caps IN
           /\ Len(caps) = Groups(call.self)
           /\ call.ret = JoinDash(caps)
    /\ (call.self = "cvf"
          /\ call.arg \in Dressed(CvfForms(CvfPaper.conf, CvfPaper.year, CvfPaper.slug)))
         => call.ret = CvfPaper.conf \o <<"-">> \o CvfPaper.year \o <<"-">> \o CvfPaper.slug
    /\ (call.self = "neurips"
          /\ call.arg \in Dressed(NeuripsForms(NeuripsPaper.year, NeuripsPaper.hash)))
         => call.ret = NeuripsPaper.year \o <<"-">> \o NeuripsPaper.hash

\* the pdf URL of a CVF paper has yielded the identifier of its html URL
C14_Witness ==
  /\ IsPaperIdCall
  /\ call.self = "cvf"
  /\ call.arg = <<"h","t","t","p","s",":","/","/","o","p","e","n","a","c","c","e","s","s",".","t","h","e","c","v","f",".","c","o","m","/","c","o","n","t","e","n","t","_","C","V","P","R","_","2","0","2","0","/","p","a","p","e","r","s","/","F","o","o","_","p","a","p","e","r",".","p","d","f">>
  /\ call.ret = <<"C","V","P","R","-","2","0","2","0","-","F","o","o","_","p","a","p","e","r">>
  /\ extractPaperId("cvf", <<"h","t","t","p","s",":","/","/","o","p","e","n","a","c","c","e","s","s",".","t","h","e","c","v","f",".","c","o","m","/","c","o","n","t","e","n","t","_","C","V","P","R","_","2","0","2","0","/","h","t","m","l","/","F","o","o","_","p","a","p","e","r",".","h","t","m","l">>) = call.ret

(***************************************************************************)
(* Properties of extractTags and extractAuthors                            *)
(***************************************************************************)
\* a tag is not empty and has no whitespace at either end
CleanTag(tag) ==
  /\ tag # <<>>
  /\ tag[1] \notin Whitespace
  /\ tag[Len(tag)] \notin Whitespace

\* the filled nodes of a key, by their place in the page
FilledAt(doc, key) == {i \in 1..Len(doc) : doc[i].key = key /\ doc[i].content # <<>>}

\* the i-th node as a keywords value, 'X;, k ', holds the pieces 'X', '' and
\* ' k ': its tags are 'X' and 'k'
TagsOfNode(i) == << Letter(i), <<"k">> >>

\* C15: every list extractTags returns holds no empty string and no entry
\* with whitespace at either end; on a page with a citation_keywords value, or
\* else a keywords value, it is that value split on ',' and ';', each piece
\* trimmed, the empty pieces removed, in the original order.
C15_TagsSplitTrimmedFiltered ==
  call.op = "extractTags" =>
    /\ \A j \in 1..Len(call.ret) : CleanTag(call.ret[j])
    /\ \A i \in FilledAt(document, "citation_keywords") : call.ret = TagsOfNode(i)
    /\ FilledAt(document, "citation_keywords") = {}
         => \A i \in FilledAt(document, "keywords") : call.ret = TagsOfNode(i)

\* a page whose keywords value holds an empty piece and a piece in blanks
C15_Witness ==
  /\ call.op = "extractTags"
  /\ call.self = "springer"
  /\ Len(document) = 1
  /\ document[1].key = "keywords"
  /\ document[1].content = <<"A",";",","," ","k"," ">>
  /\ call.ret = << <<"A">>, <<"k">> >>

\* the contents of the filled citation_author tags from the i-th node on,
\* in document order, with ', ' between them
RECURSIVE NamesFrom(_, _)
NamesFrom(doc, i) ==
  IF i > Len(doc) THEN <<>>
  ELSE LET rest == NamesFrom(doc, i + 1) IN
       IF i \notin FilledAt(doc, "citation_author") THEN rest
       ELSE IF rest = <<>> THEN doc[i].content
       ELSE doc[i].content \o <<","," ">> \o rest

\* the places of the filled nodes that are not citation_author tags
LowerSources(doc) ==
  {i \in 1..Len(doc) : doc[i].key # "citation_author" /\ Trim(doc[i].content) # <<>>}

\* whether the text holds the value that tells the i-th node
Tells(text, i) == \E p \in 1..Len(text) : << text[p] >> = Letter(i)

\* C16: on a page with a citation_author tag of non-empty content,
\* extractAuthors returns the contents of the citation_author tags in
\* document order joined with ', ', the empty ones skipped, and nothing of
\* any other source: the same as on the page with every other node removed.
\* A value of another source is returned only when no citation_author tag
\* has content.
C16_CitationAuthorsFirst ==
  call.op = "extractAuthors" =>
    /\ FilledAt(document, "citation_author") # {} =>
         /\ call.ret = NamesFrom(document, 1)
         /\ call.ret = extractAuthors(call.self, QuerySelectorAll(document, {"citation_author"}))
    /\ \A i \in LowerSources(document) :
         Tells(call.ret, i) => FilledAt(document, "citation_author") = {}

\* a page with a DC creator ahead of a citation_author tag
C16_Witness ==
  /\ call.op = "extractAuthors"
  /\ call.self = "springer"
  /\ Len(document) = 2
  /\ document[1].key = "dc.creator" /\ document[1].content = <<"A">>
  /\ document[2].key = "citation_author" /\ document[2].content = <<"B">>
  /\ call.ret = <<"B">>

(***************************************************************************)
(* Properties of an extractor on a page that changes                      *)
(***************************************************************************)
\* C17: an extractor keeps no state between accessor calls: whatever calls
\* came before and whatever the page held when the extractor was made, a
\* call returns the value of the page as it is at the time of the call, so
\* after a change of the page it returns the value of the changed page, and
\* calls on an unchanged page return equal values.
C17_ResultOfCurrentPage ==
  [][ (call'.op \in AccessorOps /\ call.op = "none")
        => /\ call'.ret = Extract(call'.op, call'.self, document)
           /\ document' = document /\ extractor' = extractor /\ created' = created ]_vars

\* the page has changed since the extractor was made, and a call has returned
\* the value of the changed page, not the one of the page as it was
C17_Witness ==
  /\ IsAccessorCall
  /\ created # document
  /\ call.ret = Extract(call.op, call.self, document)
  /\ call.ret # Extract(call.op, call.self, created)
  /\ call.ret # <<>>

(***************************************************************************)
(* Properties of the alternative URL forms of one document                *)
(***************************************************************************)
IeeeForms(n) == { <<"i","e","e","e","x","p","l","o","r","e",".","i","e","e","e",".","o","r","g","/","d","o","c","u","m","e","n","t","/">> \o n,
                  <<"i","e","e","e","x","p","l","o","r","e",".","i","e","e","e",".","o","r","g","/","a","b","s","t","r","a","c","t","/","d","o","c","u","m","e","n","t","/">> \o n }
AcmForms(doi) == { <<"d","l",".","a","c","m",".","o","r","g","/","d","o","i","/">> \o doi, <<"d","l",".","a","c","m",".","o","r","g","/","d","o","i","/","a","b","s","/">> \o doi }
SsrnForms(n) == { <<"s","s","r","n",".","c","o","m","/","a","b","s","t","r","a","c","t","=">> \o n,
                  <<"p","a","p","e","r","s",".","s","s","r","n",".","c","o","m","/","s","o","l","3","/","p","a","p","e","r","s",".","c","f","m","?","a","b","s","t","r","a","c","t","_","i","d","=">> \o n }
AclForms(id) == { <<"a","c","l","a","n","t","h","o","l","o","g","y",".","o","r","g","/">> \o id, <<"a","c","l","w","e","b",".","o","r","g","/","a","n","t","h","o","l","o","g","y","/">> \o id }

\* identifiers of documents of each publisher
IeeeNumbers == { <<"9","1">> }
AcmDois == { <<"1","0",".","1","1","4","5","/","3","3">>, <<"1","0",".","1","1","4","5","/","3","2","9","2","5","0","0",".","3","3","3","0","7","0","1">> }
SsrnNumbers == { <<"1","2","3">> }
AclIds == { <<"P","1","9","-","1","0","0","1">>, <<"2","0","2","0",".","a","c","l","-","m","a","i","n",".","1">>, <<"P","1","9",".","1","-","2","2">> }

\* C18 as stated: the alternative URL forms of one document yield the same
\* identifier: both IEEE forms yield <n>, both ACM forms the same DOI, both
\* SSRN forms <n>, both ACL forms <id>.
C18_Original ==
  IsPaperIdCall =>
    /\ \A n \in IeeeNumbers :
         (call.self = "ieee" /\ call.arg \in IeeeForms(n)) => call.ret = n
    /\ \A doi \in AcmDois :
         (call.self = "acm" /\ call.arg \in AcmForms(doi))
           => /\ call.ret # Null
              /\ \A u \in AcmForms(doi) : extractPaperId("acm", u) = call.ret
    /\ \A n \in SsrnNumbers :
         (call.self = "ssrn" /\ call.arg \in SsrnForms(n)) => call.ret = n
    /\ \A id \in AclIds :
         (call.self = "acl" /\ call.arg \in AclForms(id)) => call.ret = id
====
